---- MODULE Spec2Model ----
(***************************************************************************)
(* Model of the `replace` library crate (src/src/lib.rs): the clap command *)
(* built by init_command, the three option validators and find_matches,    *)
(* together with the part of the regex crate's behaviour that              *)
(* verify_is_valid_regex and find_matches observe (Regex::new and          *)
(* Regex::find_iter), over a small pattern syntax.                         *)
(*                                                                         *)
(* Strings are sequences of one-character strings; byte offsets into a     *)
(* haystack are 0-based, as in the crate (all characters are ASCII).       *)
(* Option<T> is a sequence of length at most one: None is <<>>.            *)
(***************************************************************************)
EXTENDS Integers, Sequences, FiniteSets, TLC

----------------------------------------------------------------------------
(* Bounds of the model *)

\* longest pattern and haystack handed to a library call
MaxPatLen == 3
MaxHayLen == 3
\* longest list handed to the two option validators
MaxPairs == 3
MaxGroups == 2
\* longest generated raw value of --nth / --every_nth
MaxArgLen == 2
\* longest pattern and haystack of a command-line run
MaxRunPatLen == 2
MaxRunHayLen == 2

----------------------------------------------------------------------------
(* Option<T> *)

None == <<>>
Some(v) == <<v>>
is_some(o) == Len(o) = 1
unwrap(o) == o[1]

\* all sequences over S of length at most n
RECURSIVE SeqsUpTo(_, _)
SeqsUpTo(S, n) ==
    IF n = 0 THEN {<<>>}
    ELSE LET shorter == SeqsUpTo(S, n - 1)
         IN shorter \cup {Append(q, x) : q \in shorter, x \in S}

----------------------------------------------------------------------------
(* Regex::new: the pattern syntax.  Literals a and b, the repetition *, the *)
(* alternation | and groups ( ).  An AST node is a tuple whose first       *)
(* element is its kind: <<"empty">>, <<"lit", c>>, <<"cat", x, y>>,        *)
(* <<"alt", x, y>>, <<"star", x>>, <<"group", x>>.  <<"none">> stands for  *)
(* "no item yet" inside the parser.                                        *)

Literals == {"a", "b"}
PatternChars == Literals \cup {"*", "|", "(", ")"}

NoItem == <<"none">>
ParseErr(pos) == [ok |-> FALSE, ast |-> <<"empty">>, pos |-> pos]
ParseOk(ast, pos) == [ok |-> TRUE, ast |-> ast, pos |-> pos]

\* the concatenation parsed so far (pre) followed by its last item
Concat(pre, last) ==
    IF last[1] = "none" THEN <<"empty">>
    ELSE IF pre[1] = "none" THEN last
    ELSE <<"cat", pre, last>>

RECURSIVE ParseAlternation(_, _), ParseConcat(_, _, _, _)
\* One concatenation from p[i] on, up to a "|", a ")" or the end of the
\* pattern.  A "*" with nothing before it in the concatenation is the
\* parser's "repetition operator missing expression" error; a "(" without
\* its ")" is "unclosed group".
ParseConcat(p, i, pre, last) ==
    IF i > Len(p) \/ p[i] \in {"|", ")"} THEN ParseOk(Concat(pre, last), i)
    ELSE IF p[i] = "*" THEN
        IF last[1] = "none" THEN ParseErr(i)
        ELSE ParseConcat(p, i + 1, pre, <<"star", last>>)
    ELSE IF p[i] = "(" THEN
        LET r == ParseAlternation(p, i + 1)
        IN IF ~r.ok THEN r
           ELSE IF r.pos > Len(p) THEN ParseErr(i)
           ELSE ParseConcat(p, r.pos + 1,
                            IF last[1] = "none" THEN pre ELSE Concat(pre, last),
                            <<"group", r.ast>>)
    ELSE ParseConcat(p, i + 1,
                     IF last[1] = "none" THEN pre ELSE Concat(pre, last),
                     <<"lit", p[i]>>)

\* An alternation from p[i] on, up to a ")" or the end of the pattern.
ParseAlternation(p, i) ==
    LET r == ParseConcat(p, i, NoItem, NoItem)
    IN IF ~r.ok THEN r
       ELSE IF r.pos <= Len(p) /\ p[r.pos] = "|" THEN
           LET r2 == ParseAlternation(p, r.pos + 1)
           IN IF ~r2.ok THEN r2 ELSE ParseOk(<<"alt", r.ast, r2.ast>>, r2.pos)
       ELSE r

\* Regex::new(pattern): Ok(regex) or Err.  A ")" left over at the top level
\* is the parser's "unopened group" error.
RegexNew(pattern) ==
    LET r == ParseAlternation(pattern, 1)
    IN IF r.ok /\ r.pos = Len(pattern) + 1 THEN r ELSE ParseErr(r.pos)

----------------------------------------------------------------------------
(* Matching.  Ends(n, s, i) lists the offsets at which a match of node n   *)
(* starting at offset i of s can end, in the engine's order of preference  *)
(* (leftmost-first: the first alternative first, a repetition greedy).     *)

RECURSIVE Ends(_, _, _), EndsFrom(_, _, _), StarFrom(_, _, _, _)
\* the ends of n from each start in starts, in order
EndsFrom(n, s, starts) ==
    IF starts = <<>> THEN <<>>
    ELSE Ends(n, s, Head(starts)) \o EndsFrom(n, s, Tail(starts))

\* x* from offset i, given the ends es of one more iteration of x from i:
\* an iteration that consumed input may be followed by more, one that
\* matched the empty string ends the repetition there.
StarFrom(x, s, i, es) ==
    IF es = <<>> THEN <<>>
    ELSE (IF Head(es) > i THEN Ends(<<"star", x>>, s, Head(es)) ELSE <<i>>)
         \o StarFrom(x, s, i, Tail(es))

Ends(n, s, i) ==
    CASE n[1] = "empty" -> <<i>>
      [] n[1] = "lit" -> IF i < Len(s) /\ s[i + 1] = n[2] THEN <<i + 1>> ELSE <<>>
      [] n[1] = "cat" -> EndsFrom(n[3], s, Ends(n[2], s, i))
      [] n[1] = "alt" -> Ends(n[2], s, i) \o Ends(n[3], s, i)
      [] n[1] = "group" -> Ends(n[2], s, i)
      [] n[1] = "star" -> StarFrom(n[2], s, i, Ends(n[2], s, i)) \o <<i>>

NoMatch == <<>>
\* The leftmost match that starts at offset `at` or later: Some(<<start,
\* end>>) or None.  A start past the end of the haystack finds nothing.
RECURSIVE Search(_, _, _)
Search(ast, s, at) ==
    IF at > Len(s) THEN NoMatch
    ELSE LET es == Ends(ast, s, at)
         IN IF es # <<>> THEN Some(<<at, Head(es)>>) ELSE Search(ast, s, at + 1)

\* Regex::find_iter: successive non-overlapping matches.  `at` is where the
\* next search starts and `last` the end of the previous match (-1: none
\* yet).  An empty match that ends where the previous match ended is
\* dropped and the search is repeated one offset further on.
RECURSIVE FindIter(_, _, _, _)
FindIter(ast, s, at, last) ==
    LET m1 == Search(ast, s, at)
        m == IF is_some(m1) /\ unwrap(m1)[1] = unwrap(m1)[2] /\ unwrap(m1)[2] = last
             THEN Search(ast, s, at + 1)
             ELSE m1
    IN IF ~is_some(m) THEN <<>>
       ELSE <<unwrap(m)>> \o FindIter(ast, s, unwrap(m)[2], unwrap(m)[2])

----------------------------------------------------------------------------
(* What a call does to the process: it returns, or it ends the process by  *)
(* std::process::exit(code) or by a panic (the Rust runtime ends a         *)
(* panicking main thread with exit code 101).  `stderr` holds the lines    *)
(* the call wrote to the error stream, each a record of its fixed text and *)
(* its formatted arguments; `value` is the value returned.                 *)

PanicExitCode == 101

Line(text, args) == [text |-> text, args |-> args]
Returns(value) == [kind |-> "return", code |-> 0, stderr |-> <<>>, value |-> value]
Exits(code, line) == [kind |-> "exit", code |-> code, stderr |-> <<line>>, value |-> <<>>]
Panics(line) == [kind |-> "panic", code |-> PanicExitCode, stderr |-> <<line>>, value |-> <<>>]

----------------------------------------------------------------------------
(* verify_is_valid_regex *)

\* Faulty variant: reports the invalid pattern but does not end the process.
verify_is_valid_regex_no_exit(pattern) ==
    IF ~RegexNew(pattern).ok
    THEN [kind |-> "return", code |-> 0,
          stderr |-> <<Line("Error: The pattern given is not a valid regular expression: ",
                            <<pattern>>)>>,
          value |-> <<>>]
    ELSE Returns(<<>>)

\* Faulty variant: the test of the compilation result is inverted.
verify_is_valid_regex_inverted(pattern) ==
    IF RegexNew(pattern).ok
    THEN Exits(1, Line("Error: The pattern given is not a valid regular expression: ",
                       <<pattern>>))
    ELSE Returns(<<>>)

verify_is_valid_regex(pattern) ==
    IF ~RegexNew(pattern).ok
    THEN Exits(1, Line("Error: The pattern given is not a valid regular expression: ",
                       <<pattern>>))
    ELSE Returns(<<>>)

----------------------------------------------------------------------------
(* verify_has_no_conflicting_options: the for loop over the pairs, from    *)
(* pair i on; the first pair with both sides present ends the process.     *)

\* Faulty variant: the loop looks at its first pair only.
ConflictLoop_first_pair_only(option_pairs, i) ==
    IF i > Len(option_pairs) THEN Returns(<<>>)
    ELSE LET opt1 == option_pairs[i][1]
             opt2 == option_pairs[i][2]
         IN IF is_some(opt1) /\ is_some(opt2)
            THEN Exits(1, Line("error: conflicting options provided: ",
                               <<unwrap(opt1), unwrap(opt2)>>))
            ELSE Returns(<<>>)

RECURSIVE ConflictLoop(_, _)
ConflictLoop(option_pairs, i) ==
    IF i > Len(option_pairs) THEN Returns(<<>>)
    ELSE LET opt1 == option_pairs[i][1]
             opt2 == option_pairs[i][2]
         IN IF is_some(opt1) /\ is_some(opt2)
            THEN Exits(1, Line("error: conflicting options provided: ",
                               <<unwrap(opt1), unwrap(opt2)>>))
            ELSE ConflictLoop(option_pairs, i + 1)

\* Faulty variant: reports the conflict but does not end the process.
verify_has_no_conflicting_options_no_exit(option_pairs) ==
    LET outcome == ConflictLoop(option_pairs, 1)
    IN IF outcome.kind = "exit"
       THEN [outcome EXCEPT !.kind = "return", !.code = 0]
       ELSE outcome

\* Faulty variant: the loop skips the first pair.
verify_has_no_conflicting_options_skip_first(option_pairs) ==
    ConflictLoop(option_pairs, 2)

verify_has_no_conflicting_options(option_pairs) == ConflictLoop(option_pairs, 1)

----------------------------------------------------------------------------
(* verify_at_least_one_option_is_provided.  An element of `options` is    *)
(* <<<<name1, opt1>>, <<name2, opt2>>>>.                                   *)

\* Faulty variant: only the first option of each group is looked at.
AnyProvided_first_only(options) ==
    \E i \in 1..Len(options) : is_some(options[i][1][2])

\* options.iter().any(|((_, opt1), (_, opt2))| opt1.is_some() || opt2.is_some())
AnyProvided(options) ==
    \E i \in 1..Len(options) :
        is_some(options[i][1][2]) \/ is_some(options[i][2][2])

\* Faulty variant: the two names of a group are listed in the wrong order.
RECURSIVE OptionNames_swapped(_)
OptionNames_swapped(options) ==
    IF options = <<>> THEN <<>>
    ELSE <<Head(options)[2][1], Head(options)[1][1]>>
         \o OptionNames_swapped(Tail(options))

\* options.iter().flat_map(|((name1, _), (name2, _))| vec![*name1, *name2])
RECURSIVE OptionNames(_)
OptionNames(options) ==
    IF options = <<>> THEN <<>>
    ELSE <<Head(options)[1][1], Head(options)[2][1]>> \o OptionNames(Tail(options))

\* names.join(sep): the names with sep between neighbours, as the sequence
\* of the pieces the joined string is made of
RECURSIVE Join(_, _)
Join(names, sep) ==
    IF Len(names) <= 1 THEN names
    ELSE <<Head(names), sep>> \o Join(Tail(names), sep)

verify_at_least_one_option_is_provided(options) ==
    IF ~AnyProvided(options)
    THEN Panics(Line("error: at least one option must be provided: ",
                     Join(OptionNames(options), ", ")))
    ELSE Returns(<<>>)

----------------------------------------------------------------------------
(* find_matches *)

\* Faulty variant: the two offsets of a match are swapped.
MatchRange_swapped(found_match) == <<found_match[2], found_match[1]>>

\* .map(|found_match| (found_match.start(), found_match.end()))
MatchRange(found_match) == <<found_match[1], found_match[2]>>

RECURSIVE MapRanges(_)
MapRanges(found) ==
    IF found = <<>> THEN <<>>
    ELSE <<MatchRange(Head(found))>> \o MapRanges(Tail(found))

\* Faulty variant: the matches are collected last first.
RECURSIVE Reversed(_)
Reversed(q) == IF q = <<>> THEN <<>> ELSE Append(Reversed(Tail(q)), Head(q))

find_matches_reversed(pattern, content) ==
    LET re == RegexNew(pattern)
    IN IF ~re.ok
       THEN Panics(Line("Invalid regex pattern: ", <<pattern>>))
       ELSE Returns(Reversed(MapRanges(FindIter(re.ast, content, 0, -1))))

find_matches(pattern, content) ==
    LET re == RegexNew(pattern)
    IN IF ~re.ok
       THEN Panics(Line("Invalid regex pattern: ", <<pattern>>))
       ELSE Returns(MapRanges(FindIter(re.ast, content, 0, -1)))

----------------------------------------------------------------------------
(* init_command: the clap Command, as the list of its arguments, and what  *)
(* try_get_matches_from makes of a command line.  A command line is given  *)
(* as the raw value supplied for each argument id (None: not supplied; a   *)
(* flag that is supplied has the empty raw value).                         *)

U16Max == 65535

Arg(id, action, required, value_parser) ==
    [id |-> id, action |-> action, required |-> required, value_parser |-> value_parser]

\* clap::value_parser!(u16).range(0..): the lower bound of the range
EveryNthRangeStart == 0
NthRangeStart == 0

init_command ==
    << Arg("pattern", "Set", TRUE, [type |-> "String", start |-> 0]),
       Arg("replacement", "Set", TRUE, [type |-> "String", start |-> 0]),
       Arg("haystack", "Set", FALSE, [type |-> "String", start |-> 0]),
       Arg("all", "SetTrue", FALSE, [type |-> "bool", start |-> 0]),
       Arg("every_nth", "Set", FALSE, [type |-> "u16", start |-> EveryNthRangeStart]),
       Arg("nth", "Set", FALSE, [type |-> "u16", start |-> NthRangeStart]) >>

ArgIds == {init_command[i].id : i \in 1..Len(init_command)}

DigitChars == <<"0", "1", "2", "3", "4", "5", "6", "7", "8", "9">>
IsDigit(c) == \E d \in 1..10 : DigitChars[d] = c
DigitVal(c) == (CHOOSE d \in 1..10 : DigitChars[d] = c) - 1

RECURSIVE DecimalValue(_, _)
\* the digits ds read left to right onto the value acc
DecimalValue(ds, acc) ==
    IF ds = <<>> THEN acc ELSE DecimalValue(Tail(ds), 10 * acc + DigitVal(Head(ds)))

\* str::parse::<i64>: an optional sign and at least one digit, nothing else
\* (raw values here are short enough that the value fits an i64)
ParseI64(raw) ==
    LET signed == raw # <<>> /\ raw[1] \in {"+", "-"}
        digits == IF signed THEN Tail(raw) ELSE raw
    IN IF digits = <<>> \/ \E i \in 1..Len(digits) : ~IsDigit(digits[i])
       THEN [ok |-> FALSE, value |-> 0]
       ELSE [ok |-> TRUE,
             value |-> IF signed /\ raw[1] = "-"
                       THEN 0 - DecimalValue(digits, 0)
                       ELSE DecimalValue(digits, 0)]

\* Faulty variant: the range of the u16 parser starts at 1, not at its start.
ParseValue_from_one(value_parser, raw) ==
    IF value_parser.type = "u16"
    THEN LET n == ParseI64(raw)
         IN IF ~n.ok THEN [ok |-> FALSE, value |-> 0]
            ELSE IF n.value < 1 THEN [ok |-> FALSE, value |-> 0]
            ELSE IF n.value > U16Max THEN [ok |-> FALSE, value |-> 0]
            ELSE n
    ELSE [ok |-> TRUE, value |-> raw]

\* The value parser of one argument on a raw value: the string itself, or
\* for u16 the i64 read from it, checked against the range and then
\* converted to u16.
ParseValue(value_parser, raw) ==
    IF value_parser.type = "u16"
    THEN LET n == ParseI64(raw)
         IN IF ~n.ok THEN [ok |-> FALSE, value |-> 0]
            ELSE IF n.value < value_parser.start THEN [ok |-> FALSE, value |-> 0]
            ELSE IF n.value > U16Max THEN [ok |-> FALSE, value |-> 0]
            ELSE n
    ELSE [ok |-> TRUE, value |-> raw]

\* the ArgMatches entry of one argument
ArgValue(arg, supplied) ==
    IF arg.action = "SetTrue" THEN Some(is_some(supplied))
    ELSE IF is_some(supplied) THEN Some(ParseValue(arg.value_parser, unwrap(supplied)).value)
    ELSE None

\* cmd.try_get_matches_from(line): Err on a value its parser rejects or on a
\* required argument that is missing, else Ok(ArgMatches)
try_get_matches_from(cmd, line) ==
    LET bad_value(i) == /\ cmd[i].action = "Set"
                        /\ is_some(line[cmd[i].id])
                        /\ ~ParseValue(cmd[i].value_parser, unwrap(line[cmd[i].id])).ok
        missing(i) == cmd[i].required /\ ~is_some(line[cmd[i].id])
    IN IF \E i \in 1..Len(cmd) : bad_value(i)
       THEN [ok |-> FALSE, kind |-> "ValueValidation", matches |-> <<>>]
       ELSE IF \E i \in 1..Len(cmd) : missing(i)
       THEN [ok |-> FALSE, kind |-> "MissingRequiredArgument", matches |-> <<>>]
       ELSE [ok |-> TRUE, kind |-> "",
             matches |-> [id \in ArgIds |->
                LET i == CHOOSE j \in 1..Len(cmd) : cmd[j].id = id
                IN ArgValue(cmd[i], line[id])]]

----------------------------------------------------------------------------
(* The process.  A caller hands arguments to one function of the library   *)
(* (fn, with the arguments in line, pattern, content, option_pairs and    *)
(* options); the call returns, or ends the process.                        *)

VARIABLES
    fn,            \* the library function called, or "main" for a run of the tool
    pc,            \* "call" before the call and "done" after it; the stage of a run
    line,          \* init_command: the command line, a raw value per argument id
    pattern,       \* verify_is_valid_regex, find_matches: the pattern
    content,       \* find_matches: the string searched
    option_pairs,  \* verify_has_no_conflicting_options: its list of pairs
    options,       \* verify_at_least_one_option_is_provided: its list of groups
    status,        \* "running", "exited" (process::exit) or "panicked"
    exit_code,     \* Some(code) once the process has ended
    stderr,        \* the lines written to the error stream
    stdout,        \* the lines written to standard output
    result,        \* the value the last call returned
    matches,       \* a run: the ArgMatches of its command line
    validated,     \* a run: the validators that have been called
    ranges,        \* a run: what find_matches returned
    selected,      \* a run: the ranges chosen for replacement
    output         \* a run: the replacement result

vars == <<fn, pc, line, pattern, content, option_pairs, options, status, exit_code,
          stderr, stdout, result, matches, validated, ranges, selected, output>>

inputs == <<fn, line, pattern, content, option_pairs, options>>
run_vars == <<matches, validated, ranges, selected, output>>

\* The sets the arguments are drawn from
Patterns == SeqsUpTo(PatternChars, MaxPatLen)
Haystacks == SeqsUpTo(Literals, MaxHayLen)
OptionValues == {None, Some("value1"), Some("value2")}
OptionPairLists == SeqsUpTo(OptionValues \X OptionValues, MaxPairs)
OptionNameSet == {"haystack", "stdin", "option1"}
NamedOptions == OptionNameSet \X {None, Some("value")}
OptionGroupLists == SeqsUpTo(NamedOptions \X NamedOptions, MaxGroups)
ArgChars == {"0", "7", "-", "+", "x"}
EdgeArgs == { <<"6", "5", "5", "3", "5">>, <<"6", "5", "5", "3", "6">>,
              <<"-", "7", "0", "0">> }
RawArgs == SeqsUpTo(ArgChars, MaxArgLen) \cup EdgeArgs

\* a command line: the arguments named in given, with these raw values
CommandLine(pat, rep, hay, all, every_nth, nth) ==
    [id \in ArgIds |->
        CASE id = "pattern" -> pat
          [] id = "replacement" -> rep
          [] id = "haystack" -> hay
          [] id = "all" -> all
          [] id = "every_nth" -> every_nth
          [] id = "nth" -> nth]

\* command lines that put one of --nth, --every_nth to the test
ParseLines ==
    { CommandLine(pat, rep, hay, all, every_nth, nth) :
        pat \in {None, Some(<<"a">>)}, rep \in {None, Some(<<"x">>)},
        hay \in {None}, all \in {None, Some(<<>>)},
        every_nth \in {None, Some(<<"7">>)},
        nth \in {None} \cup {Some(r) : r \in RawArgs} }
    \cup
    { CommandLine(pat, rep, hay, all, every_nth, nth) :
        pat \in {Some(<<"a">>)}, rep \in {Some(<<"x">>)},
        hay \in {None, Some(<<"a">>)}, all \in {None},
        every_nth \in {None} \cup {Some(r) : r \in RawArgs},
        nth \in {None, Some(<<"7">>)} }

NoLine == [id \in ArgIds |-> None]

Fresh ==
    /\ status = "running" /\ exit_code = None
    /\ stderr = <<>> /\ stdout = <<>> /\ result = <<>>
    /\ matches = <<>> /\ validated = {}
    /\ ranges = <<>> /\ selected = <<>> /\ output = <<>>

Init ==
    /\ Fresh
    /\ pc = "call"
    /\ \/ /\ fn = "init_command"
          /\ line \in ParseLines
          /\ pattern = <<>> /\ content = <<>> /\ option_pairs = <<>> /\ options = <<>>
       \/ /\ fn = "verify_is_valid_regex"
          /\ pattern \in Patterns
          /\ line = NoLine /\ content = <<>> /\ option_pairs = <<>> /\ options = <<>>
       \/ /\ fn = "verify_has_no_conflicting_options"
          /\ option_pairs \in OptionPairLists
          /\ line = NoLine /\ pattern = <<>> /\ content = <<>> /\ options = <<>>
       \/ /\ fn = "verify_at_least_one_option_is_provided"
          /\ options \in OptionGroupLists
          /\ line = NoLine /\ pattern = <<>> /\ content = <<>> /\ option_pairs = <<>>
       \/ /\ fn = "find_matches"
          /\ pattern \in Patterns /\ content \in Haystacks
          /\ line = NoLine /\ option_pairs = <<>> /\ options = <<>>

\* what the outcome of a call does to the process
Finish(outcome) ==
    /\ status' = CASE outcome.kind = "return" -> "running"
                   [] outcome.kind = "exit" -> "exited"
                   [] outcome.kind = "panic" -> "panicked"
    /\ exit_code' = IF outcome.kind = "return" THEN None ELSE Some(outcome.code)
    /\ stderr' = stderr \o outcome.stderr
    /\ result' = outcome.value

Call_init_command ==
    /\ fn = "init_command" /\ pc = "call" /\ status = "running"
    /\ LET r == try_get_matches_from(init_command, line)
       IN Finish(Returns(r))
    /\ pc' = "done"
    /\ UNCHANGED <<inputs, stdout, run_vars>>

Call_verify_is_valid_regex ==
    /\ fn = "verify_is_valid_regex" /\ pc = "call" /\ status = "running"
    /\ Finish(verify_is_valid_regex(pattern))
    /\ pc' = "done"
    /\ UNCHANGED <<inputs, stdout, run_vars>>

Call_verify_has_no_conflicting_options ==
    /\ fn = "verify_has_no_conflicting_options" /\ pc = "call" /\ status = "running"
    /\ Finish(verify_has_no_conflicting_options(option_pairs))
    /\ pc' = "done"
    /\ UNCHANGED <<inputs, stdout, run_vars>>

Call_verify_at_least_one_option_is_provided ==
    /\ fn = "verify_at_least_one_option_is_provided" /\ pc = "call" /\ status = "running"
    /\ Finish(verify_at_least_one_option_is_provided(options))
    /\ pc' = "done"
    /\ UNCHANGED <<inputs, stdout, run_vars>>

Call_find_matches ==
    /\ fn = "find_matches" /\ pc = "call" /\ status = "running"
    /\ Finish(find_matches(pattern, content))
    /\ pc' = "done"
    /\ UNCHANGED <<inputs, stdout, run_vars>>

Next ==
    \/ Call_init_command
    \/ Call_verify_is_valid_regex
    \/ Call_verify_has_no_conflicting_options
    \/ Call_verify_at_least_one_option_is_provided
    \/ Call_find_matches

Spec == Init /\ [][Next]_vars

----------------------------------------------------------------------------
(* A run of the command-line tool: parse the command line, validate, find  *)
(* the matches, select, replace, print.  The driver and the selection and  *)
(* replacement steps are not part of lib.rs; they follow the tool's        *)
(* specification (sections 4.1 to 4.3, 6 and 7), and call the library      *)
(* functions modelled above.                                               *)

ClapUsageCode == 2

Validators == {"regex", "conflicts", "input"}

RunLines ==
    { CommandLine(pat, rep, hay, all, every_nth, nth) :
        pat \in {None} \cup {Some(q) : q \in SeqsUpTo(PatternChars, MaxRunPatLen)},
        rep \in {Some(<<>>), Some(<<"x", "y">>)},
        hay \in {None} \cup {Some(h) : h \in SeqsUpTo(Literals, MaxRunHayLen)},
        all \in {None, Some(<<>>)},
        every_nth \in {None, Some(<<"0">>), Some(<<"x">>)},
        nth \in {None, Some(<<"7">>)} }

RunInit ==
    /\ Fresh
    /\ fn = "main" /\ pc = "parse"
    /\ line \in RunLines
    /\ pattern = <<>> /\ content = <<>> /\ option_pairs = <<>> /\ options = <<>>

\* The selection flags as the optional values handed to the conflict check:
\* --every_nth conflicts with --all and --nth, --nth with --all and --every_nth.
SelectionPairs(l) ==
    LET all == IF is_some(l["all"]) THEN Some("all") ELSE None
        every_nth == IF is_some(l["every_nth"]) THEN Some("every_nth") ELSE None
        nth == IF is_some(l["nth"]) THEN Some("nth") ELSE None
    IN << <<all, every_nth>>, <<all, nth>>, <<every_nth, nth>> >>

\* --haystack is the only input source
InputGroups(l) ==
    << << <<"haystack", IF is_some(l["haystack"]) THEN Some("haystack") ELSE None>>,
          <<"stdin", None>> >> >>

\* the order-preserving subsequences of a sequence
RECURSIVE Subsequences(_)
Subsequences(q) ==
    IF q = <<>> THEN {<<>>}
    ELSE LET rest == Subsequences(Tail(q))
         IN rest \cup {<<Head(q)>> \o r : r \in rest}

\* Match Selector: the selections a policy allows.  The index base of
\* NthMatch and EveryNthMatch and the meaning of n = 0 are left open by the
\* specification, so either policy may select any subset of the matches.
Select(found, m) ==
    IF unwrap(m["all"]) THEN {found}
    ELSE IF is_some(m["nth"]) \/ is_some(m["every_nth"]) THEN Subsequences(found)
    ELSE IF found = <<>> THEN {<<>>}
    ELSE {<<Head(found)>>}

\* Replacer: one pass over the haystack from offset pos, guided by the
\* selected ranges from the k-th on.
RECURSIVE ReplacePass(_, _, _, _, _)
ReplacePass(haystack, sel, k, pos, replacement) ==
    IF k > Len(sel) THEN SubSeq(haystack, pos + 1, Len(haystack))
    ELSE SubSeq(haystack, pos + 1, sel[k][1]) \o replacement
         \o ReplacePass(haystack, sel, k + 1, sel[k][2], replacement)

Replace(haystack, sel, replacement) == ReplacePass(haystack, sel, 1, 0, replacement)

\* where a run goes after a validator
AfterValidator(outcome, done) ==
    IF outcome.kind # "return" THEN "done"
    ELSE IF done = Validators THEN "find_matches"
    ELSE "validate"

Run_parse ==
    /\ fn = "main" /\ pc = "parse" /\ status = "running"
    /\ LET r == try_get_matches_from(init_command, line)
       IN IF r.ok
          THEN /\ matches' = r.matches
               /\ pattern' = unwrap(r.matches["pattern"])
               /\ content' = IF is_some(r.matches["haystack"])
                             THEN unwrap(r.matches["haystack"]) ELSE <<>>
               /\ pc' = "validate"
               /\ UNCHANGED <<status, exit_code, stderr, result>>
          ELSE /\ Finish(Exits(ClapUsageCode, Line("error: ", <<r.kind>>)))
               /\ pc' = "done"
               /\ UNCHANGED <<matches, pattern, content>>
    /\ UNCHANGED <<fn, line, option_pairs, options, stdout, validated, ranges,
                   selected, output>>

Run_verify_is_valid_regex ==
    /\ fn = "main" /\ pc = "validate" /\ status = "running"
    /\ "regex" \notin validated
    /\ validated' = validated \cup {"regex"}
    /\ LET outcome == verify_is_valid_regex(pattern)
       IN Finish(outcome) /\ pc' = AfterValidator(outcome, validated')
    /\ UNCHANGED <<inputs, stdout, matches, ranges, selected, output>>

Run_verify_has_no_conflicting_options ==
    /\ fn = "main" /\ pc = "validate" /\ status = "running"
    /\ "conflicts" \notin validated
    /\ validated' = validated \cup {"conflicts"}
    /\ LET outcome == verify_has_no_conflicting_options(SelectionPairs(line))
       IN Finish(outcome) /\ pc' = AfterValidator(outcome, validated')
    /\ UNCHANGED <<inputs, stdout, matches, ranges, selected, output>>

Run_verify_at_least_one_option_is_provided ==
    /\ fn = "main" /\ pc = "validate" /\ status = "running"
    /\ "input" \notin validated
    /\ validated' = validated \cup {"input"}
    /\ LET outcome == verify_at_least_one_option_is_provided(InputGroups(line))
       IN Finish(outcome) /\ pc' = AfterValidator(outcome, validated')
    /\ UNCHANGED <<inputs, stdout, matches, ranges, selected, output>>

Run_find_matches ==
    /\ fn = "main" /\ pc = "find_matches" /\ status = "running"
    /\ LET outcome == find_matches(pattern, content)
       IN /\ Finish(outcome)
          /\ ranges' = outcome.value
          /\ pc' = IF outcome.kind = "return" THEN "select" ELSE "done"
    /\ UNCHANGED <<inputs, stdout, matches, validated, selected, output>>

Run_select ==
    /\ fn = "main" /\ pc = "select" /\ status = "running"
    /\ selected' \in Select(ranges, matches)
    /\ pc' = "replace"
    /\ UNCHANGED <<inputs, status, exit_code, stderr, stdout, result, matches,
                   validated, ranges, output>>

Run_replace ==
    /\ fn = "main" /\ pc = "replace" /\ status = "running"
    /\ output' = Replace(content, selected, unwrap(matches["replacement"]))
    /\ pc' = "emit"
    /\ UNCHANGED <<inputs, status, exit_code, stderr, stdout, result, matches,
                   validated, ranges, selected>>

Run_emit ==
    /\ fn = "main" /\ pc = "emit" /\ status = "running"
    /\ stdout' = Append(stdout, output)
    /\ status' = "exited" /\ exit_code' = Some(0)
    /\ pc' = "done"
    /\ UNCHANGED <<inputs, stderr, result, matches, validated, ranges, selected, output>>

RunNext ==
    \/ Run_parse
    \/ Run_verify_is_valid_regex
    \/ Run_verify_has_no_conflicting_options
    \/ Run_verify_at_least_one_option_is_provided
    \/ Run_find_matches
    \/ Run_select
    \/ Run_replace
    \/ Run_emit

RunSpec == RunInit /\ [][RunNext]_vars

----------------------------------------------------------------------------
(* Properties of the library calls (checked under Spec)                     *)

Done(f) == fn = f /\ pc = "done"
ExitedNonZero == status = "exited" /\ is_some(exit_code) /\ unwrap(exit_code) # 0
ReturnedNormally == status = "running" /\ exit_code = None
Panicked == status = "panicked" /\ exit_code = Some(PanicExitCode)

\* some pair of the list has both sides present
SomePairBothPresent(pairs) ==
    \E i \in 1..Len(pairs) : pairs[i][1] # None /\ pairs[i][2] # None

\* C1: verify_has_no_conflicting_options ends the process with a non-zero
\* exit code if and only if at least one pair of its list has both sides
\* present; otherwise (the empty list included) it returns normally.
C1_ExitsIffSomePairBothPresent ==
    Done("verify_has_no_conflicting_options") =>
        /\ SomePairBothPresent(option_pairs) => ExitedNonZero
        /\ ~SomePairBothPresent(option_pairs) => ReturnedNormally

\* a list of three pairs whose only conflict is in the last pair has ended
\* the process
C1_Witness ==
    /\ Done("verify_has_no_conflicting_options")
    /\ Len(option_pairs) = 3
    /\ ~SomePairBothPresent(SubSeq(option_pairs, 1, 2))
    /\ ExitedNonZero

\* some option of some group has a present value
SomeOptionPresent(groups) ==
    \E i \in 1..Len(groups) : \E j \in 1..2 : groups[i][j][2] # None

\* C2: verify_at_least_one_option_is_provided fails (panics) if and only if
\* no option of any group is present; with one option present anywhere it
\* returns normally, and the empty list of groups fails.
C2_PanicsIffNoOptionPresent ==
    Done("verify_at_least_one_option_is_provided") =>
        /\ ~SomeOptionPresent(options) => Panicked
        /\ SomeOptionPresent(options) => ReturnedNormally
        /\ options = <<>> => Panicked

\* two groups, present only in the second option of the second group: the
\* call has returned
C2_Witness ==
    /\ Done("verify_at_least_one_option_is_provided")
    /\ Len(options) = 2
    /\ options[1][1][2] = None /\ options[1][2][2] = None
    /\ options[2][1][2] = None /\ options[2][2][2] # None
    /\ ReturnedNormally

\* C3: verify_is_valid_regex ends the process with a non-zero exit code if
\* and only if the pattern fails to compile; for a pattern that compiles it
\* returns normally and writes no message.
C3_ExitsIffPatternFailsToCompile ==
    Done("verify_is_valid_regex") =>
        /\ ExitedNonZero <=> ~RegexNew(pattern).ok
        /\ RegexNew(pattern).ok => ReturnedNormally /\ stderr = <<>>

\* a pattern with an unclosed group has ended the process
C3_Witness ==
    /\ Done("verify_is_valid_regex")
    /\ pattern = <<"(", "a">>
    /\ ExitedNonZero /\ Len(stderr) = 1

\* ranges within a string of length n, ascending and non-overlapping
AscendingRanges(rs, n) ==
    /\ \A k \in 1..Len(rs) : 0 <= rs[k][1] /\ rs[k][1] <= rs[k][2] /\ rs[k][2] <= n
    /\ \A k \in 1..(Len(rs) - 1) :
           rs[k][2] <= rs[k + 1][1] /\ rs[k][1] < rs[k + 1][1]

\* C4: for a pattern that compiles, find_matches returns half-open ranges
\* with start <= end <= length of the haystack, in strictly ascending order
\* and non-overlapping, also when the pattern can match the empty string.
C4_RangesAscendingNonOverlapping ==
    (Done("find_matches") /\ RegexNew(pattern).ok) =>
        ReturnedNormally /\ AscendingRanges(result, Len(content))

\* a search that returned three matches, empty ones and a non-empty one
C4_Witness ==
    /\ Done("find_matches") /\ ReturnedNormally
    /\ Len(result) = 3
    /\ result[1][1] = result[1][2]
    /\ result[2][1] < result[2][2]
    /\ result[3][1] = result[3][2]

NumericArgs == {"nth", "every_nth"}

\* the raw value is a decimal numeral (an optional sign, then digits)
\* denoting an integer of the set S
DenotesIn(raw, S) == ParseI64(raw).ok /\ ParseI64(raw).value \in S

\* the command line is rejected because of the value of --nth or --every_nth
ValueRejected == ~result.ok /\ result.kind = "ValueValidation"

\* C7 as stated: argument parsing accepts every non-negative integer N as
\* the value of --nth and --every_nth, and rejects every other value.
C7_EveryNonNegativeIntegerAccepted ==
    Done("init_command") =>
        (ValueRejected <=>
            \E id \in NumericArgs :
                is_some(line[id]) /\ ~DenotesIn(unwrap(line[id]), Nat))

\* C7, amended: argument parsing accepts exactly the integers N with
\* 0 <= N <= 65535 (the u16 range), N = 0 included, as the value of --nth
\* and --every_nth, hands N on as the argument's value, and rejects every
\* other value.
C7_EveryU16Accepted ==
    Done("init_command") =>
        /\ ValueRejected <=>
               \E id \in NumericArgs :
                   is_some(line[id]) /\ ~DenotesIn(unwrap(line[id]), 0..65535)
        /\ result.ok =>
               \A id \in NumericArgs :
                   is_some(line[id]) =>
                       result.matches[id] = Some(ParseI64(unwrap(line[id])).value)

\* --nth 0 has been accepted, with the value 0
C7_Witness ==
    /\ Done("init_command")
    /\ line["nth"] = Some(<<"0">>)
    /\ result.ok /\ result.matches["nth"] = Some(0)

\* the pieces of the failure message: its names, with ", " between them
FailureNames == stderr[1].args

\* C8: the failure message of verify_at_least_one_option_is_provided lists
\* the name of every option it was given, the first then the second name of
\* each group, in the order of the groups, none omitted or repeated.
C8_FailureMessageNamesEveryOption ==
    (Done("verify_at_least_one_option_is_provided") /\ status = "panicked") =>
        /\ Len(stderr) = 1
        /\ Len(FailureNames) = IF options = <<>> THEN 0 ELSE 4 * Len(options) - 1
        /\ \A g \in 1..Len(options) :
               /\ FailureNames[4 * g - 3] = options[g][1][1]
               /\ FailureNames[4 * g - 2] = ", "
               /\ FailureNames[4 * g - 1] = options[g][2][1]
               /\ g < Len(options) => FailureNames[4 * g] = ", "

\* a failure with two groups whose names differ within and across groups
C8_Witness ==
    /\ Done("verify_at_least_one_option_is_provided") /\ status = "panicked"
    /\ Len(options) = 2
    /\ options[1][1][1] # options[1][2][1]
    /\ options[1][1][1] # options[2][1][1]
    /\ Len(FailureNames) = 7

----------------------------------------------------------------------------
(* Properties of a run of the tool (checked under RunSpec)                  *)

\* a line with this fixed text has been written to the error stream
Reported(text) == \E k \in 1..Len(stderr) : stderr[k].text = text
ConflictReported == Reported("error: conflicting options provided: ")

SelectionFlags == {"all", "every_nth", "nth"}
\* the number of selection flags the command line supplies
Supplied == Cardinality({id \in SelectionFlags : is_some(line[id])})

\* C5: nothing is written to standard output on an error path: once an
\* error has been reported the process has ended with a non-zero code and
\* no result has been or will be printed; a result is printed only in runs
\* in which the command line parsed and every validator succeeded.
C5_NoOutputOnErrorPath ==
    /\ stderr # <<>> =>
           /\ stdout = <<>>
           /\ pc = "done" /\ status \in {"exited", "panicked"}
           /\ is_some(exit_code) /\ unwrap(exit_code) # 0
    /\ stdout # <<>> =>
           /\ stderr = <<>> /\ exit_code = Some(0)
           /\ try_get_matches_from(init_command, line).ok
           /\ validated = Validators
           /\ RegexNew(pattern).ok
           /\ Supplied <= 1
           /\ is_some(line["haystack"])

\* a run whose first two validators succeeded and whose third reported an
\* error
C5_Witness ==
    /\ fn = "main" /\ pc = "done"
    /\ validated = Validators
    /\ Len(stderr) = 1 /\ stdout = <<>>
    /\ status \in {"exited", "panicked"}

\* C6: a command line that supplies two or more of --all, --every_nth and
\* --nth is rejected: the conflict check reports conflicting options and
\* ends the process with a non-zero code, and the run never gets to search
\* or print; with at most one of them supplied no conflict is reported.
C6_SelectionFlagsMutuallyExclusive ==
    /\ "conflicts" \in validated =>
           /\ ConflictReported <=> Supplied >= 2
           /\ ConflictReported => ExitedNonZero /\ pc = "done"
    /\ Supplied >= 2 =>
           /\ pc \notin {"find_matches", "select", "replace", "emit"}
           /\ stdout = <<>>
           /\ pc = "done" => is_some(exit_code) /\ unwrap(exit_code) # 0
    /\ Supplied <= 1 => ~ConflictReported

\* --every_nth and --nth without --all, the last pair the check looks at,
\* have been rejected
C6_Witness ==
    /\ fn = "main" /\ pc = "done"
    /\ ~is_some(line["all"]) /\ is_some(line["every_nth"]) /\ is_some(line["nth"])
    /\ ConflictReported /\ ExitedNonZero

\* the total length of the first k ranges of sel
RECURSIVE SumLens(_, _)
SumLens(sel, k) ==
    IF k = 0 THEN 0 ELSE SumLens(sel, k - 1) + (sel[k][2] - sel[k][1])

\* the number of ranges of sel that end at or before offset j
EndedBy(sel, j) == Cardinality({k \in 1..Len(sel) : sel[k][2] <= j})
\* offset j lies in no range of sel
Outside(sel, j) == ~\E k \in 1..Len(sel) : sel[k][1] <= j /\ j < sel[k][2]

\* out is h with each range of sel replaced by rep: its length, the place
\* of every byte of h outside the ranges, and the place of each copy of rep
IsReplacement(out, h, sel, rep) ==
    /\ Len(out) = Len(h) - SumLens(sel, Len(sel)) + Len(sel) * Len(rep)
    /\ \A j \in 0..(Len(h) - 1) :
           Outside(sel, j) =>
               LET at == j - SumLens(sel, EndedBy(sel, j)) + EndedBy(sel, j) * Len(rep)
               IN at + 1 \in 1..Len(out) /\ out[at + 1] = h[j + 1]
    /\ \A k \in 1..Len(sel) :
           LET at == sel[k][1] - SumLens(sel, k - 1) + (k - 1) * Len(rep)
           IN /\ at >= 0 /\ at + Len(rep) <= Len(out)
              /\ SubSeq(out, at + 1, at + Len(rep)) = rep

\* the replacement step has run
Replaced == fn = "main" /\ (pc = "emit" \/ stdout # <<>>)

\* C9: replacement over the ranges returned by find_matches copies every
\* haystack byte outside a selected range verbatim and substitutes the
\* replacement string for each selected range, in order; with no ranges
\* the output equals the haystack, and with --all every returned range is
\* replaced.
C9_ReplacementOverFoundRanges ==
    Replaced =>
        /\ selected \in Subsequences(ranges)
        /\ IsReplacement(output, content, selected, unwrap(matches["replacement"]))
        /\ ranges = <<>> => output = content
        /\ unwrap(matches["all"]) => selected = ranges
        /\ stdout # <<>> => stdout = <<output>>

\* a printed result in which two ranges, one of them empty, were replaced
\* by a string of another length
C9_Witness ==
    /\ fn = "main" /\ stdout # <<>>
    /\ Len(selected) = 2
    /\ \E k \in 1..2 : selected[k][1] = selected[k][2]
    /\ \E k \in 1..2 : selected[k][1] < selected[k][2]
    /\ unwrap(matches["replacement"]) = <<"x", "y">>
    /\ Len(output) # Len(content)

\* C10: verify_is_valid_regex and find_matches agree on pattern validity
\* (find_matches panics exactly for the patterns on which
\* verify_is_valid_regex exits), so a run, which validates before it
\* searches, never reaches find_matches with a pattern that fails to
\* compile, and find_matches never panics in it.
C10_FindMatchesNeverPanicsAfterValidation ==
    /\ (fn = "main" /\ pc # "parse" /\ try_get_matches_from(init_command, line).ok) =>
           (find_matches(pattern, content).kind = "panic"
                <=> verify_is_valid_regex(pattern).kind = "exit")
    /\ pc = "find_matches" =>
           /\ "regex" \in validated
           /\ find_matches(pattern, content).kind = "return"
    /\ ~Reported("Invalid regex pattern: ")
    /\ status = "panicked" => Reported("error: at least one option must be provided: ")

\* a run that validated its pattern and then found matches
C10_Witness ==
    /\ fn = "main" /\ pc = "select"
    /\ "regex" \in validated
    /\ Len(ranges) >= 2

====
